---- MODULE Spec2Model ----
(***************************************************************************)
(* The task registry of src/main.py (DOWNLOAD_TASKS), the background units *)
(* that write it (download_video with its progress_hook, batch_download)   *)
(* and the HTTP handlers that read it or delete from it.                   *)
(*                                                                         *)
(* A background unit is a Python thread: every subscript assignment        *)
(* DOWNLOAD_TASKS[task_id][k] = v is one atomic step, and a handler of the *)
(* request-serving context may run between any two of them.  A program     *)
(* counter "lNNN" is the source line of the next registry write (or call)  *)
(* of the unit.  A handler is one atomic step.                             *)
(*                                                                         *)
(* progress is kept in units of 1/Scale percent, so that p * 0.7 and       *)
(* (i + 1) / len(urls) * 100 are integers.                                 *)
(***************************************************************************)
EXTENDS Integers, Sequences, FiniteSets, TLC

VARIABLES DOWNLOAD_TASKS, threads, disk, now, response, ffmpeg_available

vars == <<DOWNLOAD_TASKS, threads, disk, now, response, ffmpeg_available>>

-----------------------------------------------------------------------------
(* Bounds of the model *)

\* submissions (task ids allocated) in one run
MaxTasks == 1
\* progress_hook calls the retrieval engine makes during one fetch
MaxHooks == 2
\* longest URL list of a batch submission that passes the size check
MaxUrls == 2
\* clock ticks in one run
MaxTicks == 3

(* Program constants *)

\* the retention window in seconds
Retention == 3600
\* progress checkpoint when the fetch is finished and custom processing follows
FetchDoneCheckpoint == 70
\* progress written when custom post-processing starts
PostProcessCheckpoint == 75
\* progress of a finished task
Complete == 100
\* the fetch-phase weight 0.7, in tenths
FetchWeightTenths == 7
\* largest batch
MaxBatch == 50

\* one percent of progress
Scale == 6 * 10
\* the clock advances in steps of half a retention window
TickStep == Retention \div 2

\* Python's None, where a string is expected
None == "None"

-----------------------------------------------------------------------------
(* Request values *)

\* a JSON value of the request body: null, a string, or an object
JNull == [type |-> "NoneType", str |-> "", len |-> 0, action |-> None]
JStr(s) == [type |-> "str", str |-> s, len |-> Len(s), action |-> None]
JDict(n, a) == [type |-> "dict", str |-> "", len |-> n, action |-> a]

\* bool(v) of Python
Truthy(v) ==
    CASE v.type = "NoneType" -> FALSE
      [] v.type = "str" -> v.str # ""
      [] v.type = "dict" -> v.len > 0

ValidUrl1 == "https://example.com/video1"
ValidUrl2 == "https://example.com/video2"
MalformedUrl == "not a url"

\* the url values of a single submission: missing or empty, malformed, valid
UrlInputs == {"", MalformedUrl, ValidUrl1}

\* the post_process values of a submission: absent, {}, a preset name, any
\* other string
PostProcessInputs == {JNull, JDict(0, None), JStr("compress_high"), JStr("bogus")}

\* the list of the first n URLs a client submits as a batch
UrlList(n) == [k \in 1..n |-> IF k % 2 = 1 THEN ValidUrl1 ELSE ValidUrl2]

processing_presets ==
    [compress_high |-> JDict(2, "compress"),
     extract_audio_mp3 |-> JDict(2, "extract_audio"),
     convert_to_mp4 |-> JDict(2, "convert")]

\* "Use processing preset if provided"
ResolvePreset(post_process) ==
    IF Truthy(post_process) /\ post_process.type = "str"
       /\ post_process.str \in DOMAIN processing_presets
    THEN processing_presets[post_process.str]
    ELSE post_process

-----------------------------------------------------------------------------
(* Paths of the scratch directory *)

\* the title the retrieval engine reports for a URL
Title(url) == IF url = ValidUrl1 THEN "clip1" ELSE "clip2"

\* the container of the media behind a URL
Ext(url) == IF url = ValidUrl1 THEN "mp4" ELSE "webm"

\* os.path.join(TEMP_DIR, '%(title)s.%(ext)s') as the engine fills it in:
\* the value of ydl.prepare_filename(info)
OutputTemplate(url) == Title(url) \o "." \o Ext(url)

\* the file the engine leaves on disk: with the FFmpegVideoConvertor
\* postprocessor of ydl_opts the media is converted to mp4
FetchedFile(url, convert) ==
    IF convert THEN Title(url) \o ".mp4" ELSE OutputTemplate(url)

\* os.path.splitext(os.path.basename(input_path))[0]
BaseName(path) == IF path = "clip1.mp4" THEN "clip1" ELSE "clip2"

_get_output_path(input_path, output_format, suffix) ==
    BaseName(input_path) \o suffix \o "." \o output_format

-----------------------------------------------------------------------------
(* The clock and the start_time string *)

isoformat(t) == [iso |-> t]
fromisoformat(s) == s.iso

\* (datetime.now() - start_time).total_seconds() > 3600
\* an expiry test that also holds at exactly the retention window
ExpiredAtBoundary(task) == now - fromisoformat(task.start_time) >= Retention

Expired(task) == now - fromisoformat(task.start_time) > Retention

-----------------------------------------------------------------------------
(* The progress callback's argument *)

\* the _percent_str values the retrieval engine reports: a percentage and a
\* string float() rejects
PercentStrs == {" 50.0%", "  N/A%"}

\* _percent_str.replace('%', '')
StripPercent(s) ==
    CASE s = " 50.0%" -> " 50.0"
      [] s = "100.0%" -> "100.0"
      [] OTHER -> "  N/A"

\* a conversion that reads a string that is no number as 0
float_lenient(s) ==
    CASE s = " 50.0" -> 50
      [] s = "100.0" -> 100
      [] OTHER -> 0

\* float(percent): the number, or -1 for ValueError
float(s) ==
    CASE s = " 50.0" -> 50
      [] s = "100.0" -> 100
      [] OTHER -> -1

NoHook == [status |-> "", _percent_str |-> "", filename |-> ""]

\* the dictionaries d the engine passes to progress_hook while it fetches url
HookArgs(url) ==
    {[status |-> "downloading", _percent_str |-> p, filename |-> OutputTemplate(url)] :
        p \in PercentStrs}
    \cup {[status |-> "finished", _percent_str |-> "100.0%", filename |-> OutputTemplate(url)]}

-----------------------------------------------------------------------------
(* Background units *)

\* the locals of a unit running download_video (kind "single") or
\* batch_download (kind "batch") with a task_id
NewThread(kind, urls, post_process, task_id) ==
    [kind |-> kind,
     task_id |-> task_id,
     pc |-> IF kind = "single" THEN "l380" ELSE "l501",
     urls |-> urls,
     post_process |-> post_process,
     i |-> 0,
     hooks |-> 0,
     d |-> NoHook,
     filename |-> "",
     processed_filename |-> "",
     exc |-> "",
     outcomes |-> <<>>,
     transcodes |-> 0,
     submitted |-> now]

\* the started units, by position; in a run in which uuid4 never repeats a
\* value the task_id of a unit is its position
TaskIds == DOMAIN threads

\* the ids a client may ask for: every id a run can allocate
AnyTaskId == 1..MaxTasks

NoTask == [status |-> ""]

\* what a handler answers: the HTTP code, the task_id or error of the JSON
\* body, the task record (progress), the file sent (download_completed_file)
\* and the counts of cleanup_files
Response(op, task_id, code, error) ==
    [op |-> op, task_id |-> task_id, code |-> code, error |-> error,
     task |-> NoTask, file |-> "", files_cleaned |-> 0, tasks_cleaned |-> 0]

NoResponse == Response("", 0, 0, "")

Init ==
    /\ DOWNLOAD_TASKS = <<>>
    /\ threads = <<>>
    /\ disk = {}
    /\ now = 0
    /\ response = NoResponse
    /\ ffmpeg_available \in BOOLEAN

\* a deletion that empties the registry
DelAll(tasks, task_id) == [k \in {} |-> tasks[k]]

\* the registry without task_id
Del(tasks, task_id) == [k \in DOMAIN tasks \ {task_id} |-> tasks[k]]

\* the unit t goes to pc
Goto(t, pc) == threads' = [threads EXCEPT ![t].pc = pc]

\* response holds the answer of the handler that ran in the last step; a
\* step of a background unit or of the clock is no handler
NoAnswer == response' = NoResponse

-----------------------------------------------------------------------------
(* Submission handlers *)

\* POST /api/download/async
\* the handler, in a run of at most limit submissions, when str(uuid.uuid4())
\* is task_id
async_download_uuid4(url, post_process, limit, task_id) ==
    /\ IF ~ (url # "")
       THEN /\ response' = Response("async_download", 0, 400, "URL is required")
            /\ UNCHANGED threads
       ELSE /\ Len(threads) < limit
            /\ threads' = Append(threads,
                                 NewThread("single", <<url>>, ResolvePreset(post_process),
                                           task_id))
            /\ response' = Response("async_download", task_id, 200, "")
    /\ UNCHANGED <<DOWNLOAD_TASKS, disk, now, ffmpeg_available>>

\* the handler when uuid4 returns a value it never returned before
async_download_upto(url, post_process, limit) ==
    async_download_uuid4(url, post_process, limit, Len(threads) + 1)

async_download(url, post_process) == async_download_upto(url, post_process, MaxTasks)

\* the urls values of a batch submission: lists of 0..MaxUrls URLs, a list
\* of 51, and a value that is no list
BatchInputs ==
    {[islist |-> TRUE, items |-> UrlList(n)] : n \in 0..MaxUrls}
    \cup {[islist |-> TRUE, items |-> UrlList(MaxBatch + 1)],
          [islist |-> FALSE, items |-> <<ValidUrl1>>]}

\* a batch route without the size test
batch_download_endpoint_unlimited(urls, post_process) ==
    /\ IF urls.items = <<>> \/ ~ urls.islist
       THEN /\ response' = Response("batch_download", 0, 400, "URLs array is required")
            /\ UNCHANGED threads
       ELSE /\ Len(threads) < MaxTasks
            /\ threads' = Append(threads,
                                 NewThread("batch", urls.items, ResolvePreset(post_process),
                                           Len(threads) + 1))
            /\ response' = Response("batch_download", Len(threads) + 1, 200, "")
    /\ UNCHANGED <<DOWNLOAD_TASKS, disk, now, ffmpeg_available>>

\* POST /api/batch-download
batch_download_endpoint(urls, post_process) ==
    /\ IF urls.items = <<>> \/ ~ urls.islist
       THEN /\ response' = Response("batch_download", 0, 400, "URLs array is required")
            /\ UNCHANGED threads
       ELSE IF Len(urls.items) > MaxBatch
       THEN /\ response' = Response("batch_download", 0, 400, "Maximum 50 URLs per batch")
            /\ UNCHANGED threads
       ELSE /\ Len(threads) < MaxTasks
            /\ threads' = Append(threads,
                                 NewThread("batch", urls.items, ResolvePreset(post_process),
                                           Len(threads) + 1))
            /\ response' = Response("batch_download", Len(threads) + 1, 200, "")
    /\ UNCHANGED <<DOWNLOAD_TASKS, disk, now, ffmpeg_available>>

-----------------------------------------------------------------------------
(* download_video as a background unit *)

\* the record a single download registers
download_video_record(th) ==
    [status |-> "starting",
     progress |-> 0,
     filename |-> "",
     error |-> None,
     start_time |-> isoformat(now),
     post_processing |-> th.post_process.type # "NoneType"]

\* if task_id: DOWNLOAD_TASKS[task_id] = {...}
download_video_register(t) ==
    /\ threads[t].pc = "l380"
    /\ DOWNLOAD_TASKS' = [k \in DOMAIN DOWNLOAD_TASKS \cup {threads[t].task_id} |->
                            IF k = threads[t].task_id THEN download_video_record(threads[t])
                            ELSE DOWNLOAD_TASKS[k]]
    /\ Goto(t, "l430")
    /\ NoAnswer
    /\ UNCHANGED <<disk, now, ffmpeg_available>>

\* a hook that enters the post-processing branch on every 'finished' callback
progress_hook_entry_unguarded(t, d) ==
    IF ~ (threads[t].task_id \in DOMAIN DOWNLOAD_TASKS) THEN "l430"
    ELSE IF d.status = "downloading"
         THEN IF float(StripPercent(d._percent_str)) = -1 THEN "l430" ELSE "l394"
    ELSE IF d.status = "finished" THEN "l401"
    ELSE "l430"

\* where progress_hook, called with d, makes its first write; "l430" when it
\* writes nothing
progress_hook_entry(t, d) ==
    IF ~ (threads[t].task_id \in DOMAIN DOWNLOAD_TASKS) THEN "l430"
    ELSE IF d.status = "downloading"
         THEN IF float(StripPercent(d._percent_str)) = -1 THEN "l430" ELSE "l394"
    ELSE IF d.status = "finished"
         THEN IF Truthy(threads[t].post_process) THEN "l401" ELSE "l404"
    ELSE "l430"

\* the retrieval engine calls progress_hook(d) during extract_info
progress_hook(t, d) ==
    /\ threads[t].pc = "l430"
    /\ threads[t].urls[1] # MalformedUrl
    /\ threads[t].hooks < MaxHooks
    /\ threads' = [threads EXCEPT
                     ![t].hooks = @ + 1,
                     ![t].d = IF progress_hook_entry(t, d) = "l430" THEN NoHook ELSE d,
                     ![t].pc = progress_hook_entry(t, d)]
    /\ NoAnswer
    /\ UNCHANGED <<DOWNLOAD_TASKS, disk, now, ffmpeg_available>>

\* float(percent) * 0.7
FetchProgress(percent) == (float(percent) * FetchWeightTenths * Scale) \div 10

HookPcs == {"l394", "l395", "l396", "l401", "l402", "l404", "l405", "l406"}

\* the task record after the write of progress_hook at pc
progress_hook_store(pc, th, task) ==
    CASE pc = "l394" ->
           [task EXCEPT !.progress = FetchProgress(StripPercent(th.d._percent_str))]
      [] pc = "l395" -> [task EXCEPT !.status = "downloading"]
      [] pc = "l396" -> [task EXCEPT !.filename = th.d.filename]
      [] pc = "l401" -> [task EXCEPT !.status = "post_processing"]
      [] pc = "l402" -> [task EXCEPT !.progress = FetchDoneCheckpoint * Scale]
      [] pc = "l404" -> [task EXCEPT !.status = "finished"]
      [] pc = "l405" -> [task EXCEPT !.progress = Complete * Scale]
      [] pc = "l406" -> [task EXCEPT !.filename = th.d.filename]

progress_hook_next(pc) ==
    CASE pc = "l394" -> "l395"
      [] pc = "l395" -> "l396"
      [] pc = "l396" -> "l430"
      [] pc = "l401" -> "l402"
      [] pc = "l402" -> "l406"
      [] pc = "l404" -> "l405"
      [] pc = "l405" -> "l406"
      [] pc = "l406" -> "l430"

\* one assignment DOWNLOAD_TASKS[task_id][k] = v of progress_hook; when the
\* task is gone it raises KeyError, which leaves extract_info and reaches
\* the except clause of download_video
progress_hook_write(t) ==
    /\ threads[t].pc \in HookPcs
    /\ IF threads[t].task_id \in DOMAIN DOWNLOAD_TASKS
       THEN /\ DOWNLOAD_TASKS' =
                 [DOWNLOAD_TASKS EXCEPT
                    ![threads[t].task_id] = progress_hook_store(threads[t].pc, threads[t], @)]
            /\ threads' = [threads EXCEPT
                             ![t].pc = progress_hook_next(threads[t].pc),
                             ![t].d = IF progress_hook_next(threads[t].pc) = "l430"
                                      THEN NoHook ELSE @]
       ELSE /\ threads' = [threads EXCEPT ![t].pc = "l457", ![t].exc = "KeyError",
                                          ![t].d = NoHook]
            /\ UNCHANGED DOWNLOAD_TASKS
    /\ NoAnswer
    /\ UNCHANGED <<disk, now, ffmpeg_available>>

\* the postprocessors entry of ydl_opts: FFmpegVideoConvertor to mp4
Converts(th) == ffmpeg_available /\ ~ Truthy(th.post_process)

\* custom processing that does not ask whether the engine is there
CustomProcessingUnchecked(th) == Truthy(th.post_process)

\* if post_process and self.ffmpeg_processor.ffmpeg_available
CustomProcessing(th) == Truthy(th.post_process) /\ ffmpeg_available

\* ydl.extract_info(url, download=True) returns: the media is on disk
extract_info_return(t) ==
    /\ threads[t].pc = "l430"
    /\ threads[t].urls[1] # MalformedUrl
    /\ threads' = [threads EXCEPT
                     ![t].filename = OutputTemplate(threads[t].urls[1]),
                     ![t].outcomes = Append(@, "fetched"),
                     ![t].pc = IF CustomProcessing(threads[t]) THEN "l437" ELSE "l450"]
    /\ disk' = disk \cup {FetchedFile(threads[t].urls[1], Converts(threads[t]))}
    /\ NoAnswer
    /\ UNCHANGED <<DOWNLOAD_TASKS, now, ffmpeg_available>>

\* ydl.extract_info raises
extract_info_raise(t) ==
    /\ threads[t].pc = "l430"
    /\ threads' = [threads EXCEPT ![t].exc = "ERROR: unable to download",
                                  ![t].outcomes = Append(@, "fetch failed"),
                                  ![t].pc = "l457"]
    /\ NoAnswer
    /\ UNCHANGED <<DOWNLOAD_TASKS, disk, now, ffmpeg_available>>

\* whether _apply_post_processing reaches a transcoding operation of
\* FFmpegProcessor: the configuration is a dictionary with a known action
InvokesEngine(post_process_config) ==
    /\ post_process_config.type = "dict"
    /\ post_process_config.action \in
         {"compress", "extract_audio", "convert", "trim", "watermark"}

\* the output path of the transcoding operation for the action
ProcessedPath(filename, post_process_config) ==
    CASE post_process_config.action = "compress" ->
           _get_output_path(filename, "mp4", "_compressed")
      [] post_process_config.action = "trim" ->
           _get_output_path(filename, "mp4", "_trimmed")
      [] post_process_config.action = "watermark" ->
           _get_output_path(filename, "mp4", "_watermarked")
      [] post_process_config.action = "extract_audio" ->
           _get_output_path(filename, "mp3", "_processed")
      [] OTHER -> _get_output_path(filename, "mp4", "_processed")

\* a post-processing that hands back the output path of an operation that
\* failed
_apply_post_processing_no_fallback(filename, post_process_config, engine_ok) ==
    IF InvokesEngine(post_process_config)
    THEN ProcessedPath(filename, post_process_config)
    ELSE filename

\* the value _apply_post_processing returns: the operation's output path, or
\* filename when the operation raises (engine_ok false), when the action is
\* unknown, and when post_process_config has no get (a string)
_apply_post_processing(filename, post_process_config, engine_ok) ==
    IF InvokesEngine(post_process_config) /\ engine_ok
    THEN ProcessedPath(filename, post_process_config)
    ELSE filename

\* processed_filename = self._apply_post_processing(filename, post_process);
\* the engine can succeed only on an input that is still on disk
apply_post_processing_call(t, engine_ok) ==
    /\ threads[t].pc = "l440"
    /\ engine_ok => /\ InvokesEngine(threads[t].post_process)
                    /\ threads[t].filename \in disk
    /\ LET th == threads[t]
           out == _apply_post_processing(th.filename, th.post_process, engine_ok)
       IN /\ threads' = [threads EXCEPT
                           ![t].processed_filename = out,
                           ![t].transcodes =
                               IF InvokesEngine(th.post_process) THEN @ + 1 ELSE @,
                           ![t].outcomes =
                               Append(@, IF engine_ok THEN "processed"
                                         ELSE "processing failed"),
                           ![t].pc = "l443"]
          /\ disk' = IF engine_ok THEN disk \cup {out} ELSE disk
    /\ NoAnswer
    /\ UNCHANGED <<DOWNLOAD_TASKS, now, ffmpeg_available>>

BodyPcs == {"l437", "l438", "l443", "l444", "l445", "l450", "l451", "l452"}
ExceptPcs == {"l457", "l458"}

\* the task record after the write of download_video at pc
download_video_store(pc, th, task) ==
    CASE pc = "l437" -> [task EXCEPT !.status = "post_processing"]
      [] pc = "l438" -> [task EXCEPT !.progress = PostProcessCheckpoint * Scale]
      [] pc = "l443" -> [task EXCEPT !.progress = Complete * Scale]
      [] pc = "l444" -> [task EXCEPT !.status = "completed"]
      [] pc = "l445" -> [task EXCEPT !.filename = th.processed_filename]
      [] pc = "l450" -> [task EXCEPT !.status = "completed"]
      [] pc = "l451" -> [task EXCEPT !.filename = th.filename]
      [] pc = "l452" -> [task EXCEPT !.progress = Complete * Scale]
      [] pc = "l457" -> [task EXCEPT !.status = "error"]
      [] pc = "l458" -> [task EXCEPT !.error = th.exc]

\* "returned": return filename, title; "raised": raise Exception(...) of the
\* except clause
download_video_next(pc) ==
    CASE pc = "l437" -> "l438"
      [] pc = "l438" -> "l440"
      [] pc = "l443" -> "l444"
      [] pc = "l444" -> "l445"
      [] pc = "l445" -> "returned"
      [] pc = "l450" -> "l451"
      [] pc = "l451" -> "l452"
      [] pc = "l452" -> "returned"
      [] pc = "l457" -> "l458"
      [] pc = "l458" -> "raised"

\* a write that creates the record it does not find
download_video_write_recreating(t) ==
    /\ threads[t].pc \in BodyPcs \cup ExceptPcs
    /\ DOWNLOAD_TASKS' =
         [k \in DOMAIN DOWNLOAD_TASKS \cup {threads[t].task_id} |->
            IF k = threads[t].task_id
            THEN download_video_store(threads[t].pc, threads[t],
                                      IF k \in DOMAIN DOWNLOAD_TASKS THEN DOWNLOAD_TASKS[k]
                                      ELSE download_video_record(threads[t]))
            ELSE DOWNLOAD_TASKS[k]]
    /\ Goto(t, download_video_next(threads[t].pc))
    /\ NoAnswer
    /\ UNCHANGED <<disk, now, ffmpeg_available>>

\* one assignment DOWNLOAD_TASKS[task_id][k] = v of download_video.  When the
\* task is gone it raises KeyError: inside the try block that leads to the
\* except clause, inside the except clause it ends the unit ("died")
download_video_write(t) ==
    /\ threads[t].pc \in BodyPcs \cup ExceptPcs
    /\ IF threads[t].task_id \in DOMAIN DOWNLOAD_TASKS
       THEN /\ DOWNLOAD_TASKS' =
                 [DOWNLOAD_TASKS EXCEPT
                    ![threads[t].task_id] = download_video_store(threads[t].pc, threads[t], @)]
            /\ Goto(t, download_video_next(threads[t].pc))
       ELSE /\ IF threads[t].pc \in BodyPcs
               THEN threads' = [threads EXCEPT ![t].pc = "l457", ![t].exc = "KeyError"]
               ELSE Goto(t, "died")
            /\ UNCHANGED DOWNLOAD_TASKS
    /\ NoAnswer
    /\ UNCHANGED <<disk, now, ffmpeg_available>>

-----------------------------------------------------------------------------
(* batch_download as a background unit *)

Digit(n) ==
    CASE n = 0 -> "0" [] n = 1 -> "1" [] n = 2 -> "2" [] n = 3 -> "3"
      [] n = 4 -> "4" [] n = 5 -> "5" [] n = 6 -> "6" [] n = 7 -> "7"
      [] n = 8 -> "8" [] n = 9 -> "9"

\* str(n) for n < 100
Str(n) == IF n < 10 THEN Digit(n) ELSE Digit(n \div 10) \o Digit(n % 10)

\* f'downloading {i+1}/{len(urls)}'
BatchStatus(i, n) == "downloading " \o Str(i + 1) \o "/" \o Str(n)

\* ((i + 1) / len(urls)) * 100
BatchProgress(i, n) == ((i + 1) * Complete * Scale) \div n

\* the record a batch registers
batch_download_record(th) ==
    [status |-> "starting",
     progress |-> 0,
     total_files |-> Len(th.urls),
     completed_files |-> 0,
     files |-> <<>>,
     errors |-> <<>>,
     start_time |-> isoformat(now),
     post_processing |-> th.post_process.type # "NoneType"]

\* a loop that stops at the first item that failed
LoopHeadAbort(th, i) == IF i < Len(th.urls) /\ th.exc = "" THEN "l518" ELSE "l537"

\* where the loop for i, url in enumerate(urls) goes with i items attempted
LoopHead(th, i) == IF i < Len(th.urls) THEN "l518" ELSE "l537"

\* if task_id: DOWNLOAD_TASKS[task_id] = {...}
batch_download_register(t) ==
    /\ threads[t].pc = "l501"
    /\ DOWNLOAD_TASKS' = [k \in DOMAIN DOWNLOAD_TASKS \cup {threads[t].task_id} |->
                            IF k = threads[t].task_id THEN batch_download_record(threads[t])
                            ELSE DOWNLOAD_TASKS[k]]
    /\ Goto(t, LoopHead(threads[t], 0))
    /\ NoAnswer
    /\ UNCHANGED <<disk, now, ffmpeg_available>>

\* filename, title = self.download_video(url, format_selector,
\* post_process=post_process): without a task_id it writes nothing to the
\* registry; it raises when the fetch fails, and returns the fetched or the
\* processed file otherwise
\* an item download that stores its file path in the record of the batch
batch_item_download_with_task_id(t, fetch_ok, engine_ok) ==
    /\ threads[t].pc = "l520"
    /\ LET th == threads[t]
           url == th.urls[th.i + 1]
           filename == OutputTemplate(url)
       IN /\ engine_ok => /\ fetch_ok
                          /\ CustomProcessing(th)
                          /\ InvokesEngine(th.post_process)
          /\ threads' = [threads EXCEPT
                           ![t].filename = IF fetch_ok THEN filename ELSE @,
                           ![t].exc = IF fetch_ok THEN @
                                      ELSE "Error downloading video: ERROR",
                           ![t].outcomes = Append(@, IF fetch_ok THEN "ok" ELSE "failed"),
                           ![t].transcodes =
                               IF fetch_ok /\ CustomProcessing(th)
                                  /\ InvokesEngine(th.post_process)
                               THEN @ + 1 ELSE @,
                           ![t].pc = IF fetch_ok THEN "l524" ELSE "l533"]
          /\ disk' = IF ~ fetch_ok THEN disk
                     ELSE disk \cup {FetchedFile(url, Converts(th))}
                          \cup (IF engine_ok
                                THEN {_apply_post_processing(filename, th.post_process, TRUE)}
                                ELSE {})
          /\ DOWNLOAD_TASKS' =
               [id \in DOMAIN DOWNLOAD_TASKS |->
                  IF id = th.task_id /\ fetch_ok
                  THEN [k \in DOMAIN DOWNLOAD_TASKS[id] \cup {"filename"} |->
                          IF k = "filename" THEN filename ELSE DOWNLOAD_TASKS[id][k]]
                  ELSE DOWNLOAD_TASKS[id]]
    /\ NoAnswer
    /\ UNCHANGED <<now, ffmpeg_available>>

batch_item_download(t, fetch_ok, engine_ok) ==
    /\ threads[t].pc = "l520"
    /\ LET th == threads[t]
           url == th.urls[th.i + 1]
           filename == OutputTemplate(url)
       IN /\ engine_ok => /\ fetch_ok
                          /\ CustomProcessing(th)
                          /\ InvokesEngine(th.post_process)
          /\ threads' = [threads EXCEPT
                           ![t].filename = IF fetch_ok THEN filename ELSE @,
                           ![t].exc = IF fetch_ok THEN @
                                      ELSE "Error downloading video: ERROR",
                           ![t].outcomes = Append(@, IF fetch_ok THEN "ok" ELSE "failed"),
                           ![t].transcodes =
                               IF fetch_ok /\ CustomProcessing(th)
                                  /\ InvokesEngine(th.post_process)
                               THEN @ + 1 ELSE @,
                           ![t].pc = IF fetch_ok THEN "l524" ELSE "l533"]
          /\ disk' = IF ~ fetch_ok THEN disk
                     ELSE disk \cup {FetchedFile(url, Converts(th))}
                          \cup (IF engine_ok
                                THEN {_apply_post_processing(filename, th.post_process, TRUE)}
                                ELSE {})
    /\ NoAnswer
    /\ UNCHANGED <<DOWNLOAD_TASKS, now, ffmpeg_available>>

\* the elements of a sequence
Range(seq) == {seq[k] : k \in DOMAIN seq}

\* a batch that escalates the failure of an item to the task
BatchFinalStatusEscalating(th) ==
    IF "failed" \in Range(th.outcomes) THEN "error" ELSE "completed"

\* DOWNLOAD_TASKS[task_id]['status'] = 'completed' after the loop, whatever
\* the items did
BatchFinalStatus(th) == "completed"

BatchTryPcs == {"l518", "l524", "l525", "l526"}
BatchPcs == BatchTryPcs \cup {"l533", "l534", "l537", "l538"}

\* the task record after the write of batch_download at pc
batch_download_store(pc, th, task) ==
    LET url == th.urls[th.i + 1] IN
    CASE pc = "l518" -> [task EXCEPT !.status = BatchStatus(th.i, Len(th.urls))]
      [] pc = "l524" -> [task EXCEPT !.completed_files = th.i + 1]
      [] pc = "l525" -> [task EXCEPT !.progress = BatchProgress(th.i, Len(th.urls))]
      [] pc = "l526" ->
           [task EXCEPT !.files =
              Append(@, [title |-> Title(url), status |-> "completed"])]
      [] pc = "l533" ->
           [task EXCEPT !.errors = Append(@, [url |-> url, error |-> th.exc])]
      [] pc = "l534" ->
           [task EXCEPT !.files =
              Append(@, [url |-> url, status |-> "error", error |-> th.exc])]
      [] pc = "l537" -> [task EXCEPT !.status = BatchFinalStatus(th)]
      [] pc = "l538" -> [task EXCEPT !.progress = Complete * Scale]

\* the unit after the write at pc: the next line, or the next item
batch_download_step(pc, th) ==
    CASE pc = "l518" -> [th EXCEPT !.pc = "l520"]
      [] pc = "l524" -> [th EXCEPT !.pc = "l525"]
      [] pc = "l525" -> [th EXCEPT !.pc = "l526"]
      [] pc = "l526" -> [th EXCEPT !.i = @ + 1, !.pc = LoopHead(th, th.i + 1)]
      [] pc = "l533" -> [th EXCEPT !.pc = "l534"]
      [] pc = "l534" -> [th EXCEPT !.i = @ + 1, !.pc = LoopHead(th, th.i + 1)]
      [] pc = "l537" -> [th EXCEPT !.pc = "l538"]
      [] pc = "l538" -> [th EXCEPT !.pc = "returned"]

\* one write of batch_download to DOWNLOAD_TASKS[task_id].  When the task is
\* gone it raises KeyError: inside the try block that leads to the except
\* clause of the item, elsewhere it ends the unit ("died")
batch_download_write(t) ==
    /\ threads[t].pc \in BatchPcs
    /\ IF threads[t].task_id \in DOMAIN DOWNLOAD_TASKS
       THEN /\ DOWNLOAD_TASKS' =
                 [DOWNLOAD_TASKS EXCEPT
                    ![threads[t].task_id] = batch_download_store(threads[t].pc, threads[t], @)]
            /\ threads' = [threads EXCEPT ![t] = batch_download_step(threads[t].pc, @)]
       ELSE /\ IF threads[t].pc \in BatchTryPcs
               THEN threads' = [threads EXCEPT ![t].pc = "l533", ![t].exc = "KeyError"]
               ELSE Goto(t, "died")
            /\ UNCHANGED DOWNLOAD_TASKS
    /\ NoAnswer
    /\ UNCHANGED <<disk, now, ffmpeg_available>>

-----------------------------------------------------------------------------
(* Handlers that read the registry, the cleanup and the clock *)

\* a poll that answers an empty record for an id it does not know
get_download_progress_default(task_id) ==
    /\ IF ~ (task_id \in DOMAIN DOWNLOAD_TASKS)
       THEN /\ response' = Response("progress", task_id, 200, "")
            /\ UNCHANGED DOWNLOAD_TASKS
       ELSE LET task == DOWNLOAD_TASKS[task_id] IN
            IF task.status \in {"completed", "error"} /\ Expired(task)
            THEN /\ DOWNLOAD_TASKS' = Del(DOWNLOAD_TASKS, task_id)
                 /\ response' = Response("progress", task_id, 404, "Task expired")
            ELSE /\ response' = [Response("progress", task_id, 200, "") EXCEPT
                                   !.task = task]
                 /\ UNCHANGED DOWNLOAD_TASKS
    /\ UNCHANGED <<threads, disk, now, ffmpeg_available>>

\* GET /api/progress/<task_id>
get_download_progress(task_id) ==
    /\ IF ~ (task_id \in DOMAIN DOWNLOAD_TASKS)
       THEN /\ response' = Response("progress", task_id, 404, "Task not found")
            /\ UNCHANGED DOWNLOAD_TASKS
       ELSE LET task == DOWNLOAD_TASKS[task_id] IN
            IF task.status \in {"completed", "error"} /\ Expired(task)
            THEN /\ DOWNLOAD_TASKS' = Del(DOWNLOAD_TASKS, task_id)
                 /\ response' = Response("progress", task_id, 404, "Task expired")
            ELSE /\ response' = [Response("progress", task_id, 200, "") EXCEPT
                                   !.task = task]
                 /\ UNCHANGED DOWNLOAD_TASKS
    /\ UNCHANGED <<threads, disk, now, ffmpeg_available>>

\* task.get('filename'): a batch record has no such key
GetFilename(task) == IF "filename" \in DOMAIN task THEN task.filename ELSE None

\* a file endpoint that does not look at the status
download_completed_file_any_status(task_id) ==
    /\ IF ~ (task_id \in DOMAIN DOWNLOAD_TASKS)
       THEN response' = Response("file", task_id, 404, "Task not found")
       ELSE LET task == DOWNLOAD_TASKS[task_id]
                filename == GetFilename(task)
            IN IF filename \in {None, ""} \/ ~ (filename \in disk)
               THEN response' = Response("file", task_id, 404, "File not found")
               ELSE response' = [Response("file", task_id, 200, "") EXCEPT
                                   !.file = filename]
    /\ UNCHANGED <<DOWNLOAD_TASKS, threads, disk, now, ffmpeg_available>>

\* GET /api/download/file/<task_id>
download_completed_file(task_id) ==
    /\ IF ~ (task_id \in DOMAIN DOWNLOAD_TASKS)
       THEN response' = Response("file", task_id, 404, "Task not found")
       ELSE LET task == DOWNLOAD_TASKS[task_id]
                filename == GetFilename(task)
            IN IF task.status # "completed"
               THEN response' = Response("file", task_id, 400, "Download not completed")
               ELSE IF filename \in {None, ""} \/ ~ (filename \in disk)
               THEN response' = Response("file", task_id, 404, "File not found")
               ELSE response' = [Response("file", task_id, 200, "") EXCEPT
                                   !.file = filename]
    /\ UNCHANGED <<DOWNLOAD_TASKS, threads, disk, now, ffmpeg_available>>

\* the tasks cleanup_files collects in expired_tasks
expired_tasks == {task_id \in DOMAIN DOWNLOAD_TASKS : Expired(DOWNLOAD_TASKS[task_id])}

\* POST /api/cleanup
cleanup_files ==
    /\ disk' = {}
    /\ DOWNLOAD_TASKS' = [k \in DOMAIN DOWNLOAD_TASKS \ expired_tasks |-> DOWNLOAD_TASKS[k]]
    /\ response' = [Response("cleanup", 0, 200, "") EXCEPT
                      !.files_cleaned = Cardinality(disk),
                      !.tasks_cleaned = Cardinality(expired_tasks)]
    /\ UNCHANGED <<threads, now, ffmpeg_available>>

\* time passes
Tick ==
    /\ now + TickStep <= MaxTicks * TickStep
    /\ now' = now + TickStep
    /\ NoAnswer
    /\ UNCHANGED <<DOWNLOAD_TASKS, threads, disk, ffmpeg_available>>

\* the steps of the background unit of task t that the unit takes by itself
\* once scheduled: its own statements, and the return or failure of a call
\* into the retrieval or the transcoding engine
UnitStep(t) ==
    \/ download_video_register(t)
    \/ progress_hook_write(t)
    \/ extract_info_return(t)
    \/ extract_info_raise(t)
    \/ \E engine_ok \in BOOLEAN : apply_post_processing_call(t, engine_ok)
    \/ download_video_write(t)
    \/ batch_download_register(t)
    \/ \E fetch_ok \in BOOLEAN, engine_ok \in BOOLEAN :
         batch_item_download(t, fetch_ok, engine_ok)
    \/ batch_download_write(t)

-----------------------------------------------------------------------------

Next ==
    \/ \E url \in UrlInputs, post_process \in PostProcessInputs :
         async_download(url, post_process)
    \/ \E urls \in BatchInputs, post_process \in PostProcessInputs :
         batch_download_endpoint(urls, post_process)
    \/ \E t \in TaskIds : download_video_register(t)
    \/ \E t \in TaskIds : \E d \in HookArgs(threads[t].urls[1]) : progress_hook(t, d)
    \/ \E t \in TaskIds : progress_hook_write(t)
    \/ \E t \in TaskIds : extract_info_return(t)
    \/ \E t \in TaskIds : extract_info_raise(t)
    \/ \E t \in TaskIds, engine_ok \in BOOLEAN : apply_post_processing_call(t, engine_ok)
    \/ \E t \in TaskIds : download_video_write(t)
    \/ \E t \in TaskIds : batch_download_register(t)
    \/ \E t \in TaskIds, fetch_ok \in BOOLEAN, engine_ok \in BOOLEAN :
         batch_item_download(t, fetch_ok, engine_ok)
    \/ \E t \in TaskIds : batch_download_write(t)
    \/ \E task_id \in AnyTaskId : get_download_progress(task_id)
    \/ \E task_id \in AnyTaskId : download_completed_file(task_id)
    \/ cleanup_files
    \/ Tick

Spec == Init /\ [][Next]_vars

\* Two single downloads side by side: the submissions and the steps of
\* download_video, without callbacks, polls, sweeps or the clock.
MaxPair == MaxTasks + 1

NextPair ==
    \/ \E url \in UrlInputs, post_process \in PostProcessInputs :
         async_download_upto(url, post_process, MaxPair)
    \/ \E t \in TaskIds : download_video_register(t)
    \/ \E t \in TaskIds : extract_info_return(t)
    \/ \E t \in TaskIds : extract_info_raise(t)
    \/ \E t \in TaskIds, engine_ok \in BOOLEAN : apply_post_processing_call(t, engine_ok)
    \/ \E t \in TaskIds : download_video_write(t)

SpecPair == Init /\ [][NextPair]_vars

\* Two single downloads, the clock and the two read operations of the HTTP
\* surface, asked for either task.
NextReads ==
    \/ \E url \in UrlInputs, post_process \in {JNull, JStr("compress_high")} :
         async_download_upto(url, post_process, MaxPair)
    \/ \E t \in TaskIds : download_video_register(t)
    \/ \E t \in TaskIds : extract_info_return(t)
    \/ \E t \in TaskIds : extract_info_raise(t)
    \/ \E t \in TaskIds, engine_ok \in BOOLEAN : apply_post_processing_call(t, engine_ok)
    \/ \E t \in TaskIds : download_video_write(t)
    \/ \E task_id \in 1..MaxPair : get_download_progress(task_id)
    \/ \E task_id \in 1..MaxPair : download_completed_file(task_id)
    \/ Tick

SpecReads == Init /\ [][NextReads]_vars

\* Two single downloads whose identifiers uuid4 draws at random from the
\* identifier space, here of MaxPair values: nothing in async_download keeps
\* the second draw from being the value of the first.
NextIds ==
    \/ \E url \in UrlInputs, post_process \in PostProcessInputs, task_id \in 1..MaxPair :
         async_download_uuid4(url, post_process, MaxPair, task_id)
    \/ \E t \in TaskIds : download_video_register(t)
    \/ \E t \in TaskIds : extract_info_return(t)
    \/ \E t \in TaskIds : extract_info_raise(t)
    \/ \E t \in TaskIds, engine_ok \in BOOLEAN : apply_post_processing_call(t, engine_ok)
    \/ \E t \in TaskIds : download_video_write(t)

SpecIds == Init /\ [][NextIds]_vars

\* threading.Thread(...).start(): every started unit keeps being scheduled
FairSpec == Init /\ [][Next]_vars /\ \A t \in AnyTaskId : WF_vars(t \in TaskIds /\ UnitStep(t))

-----------------------------------------------------------------------------
(* Properties *)

Registered == DOMAIN DOWNLOAD_TASKS
Singles == {t \in TaskIds : threads[t].kind = "single"}
Batches == {t \in TaskIds : threads[t].kind = "batch"}
Terminal(task) == task.status \in {"completed", "error"}
GetError(task) == IF "error" \in DOMAIN task THEN task.error ELSE None

\* C1: the progress of a single task never decreases from one registry write
\* to the next while its status is neither completed nor error.
C1_ProgressNeverDecreases ==
    [][\A t \in Singles \cap Registered :
         (~ Terminal(DOWNLOAD_TASKS[t]) /\ t \in DOMAIN DOWNLOAD_TASKS')
         => DOWNLOAD_TASKS'[t].progress >= DOWNLOAD_TASKS[t].progress]_vars

\* C2: once a task is completed or error, no later step changes its progress,
\* file path or error field until the record is deleted.
C2_TerminalRecordFrozen ==
    [][\A t \in Registered :
         (Terminal(DOWNLOAD_TASKS[t]) /\ t \in DOMAIN DOWNLOAD_TASKS')
         => /\ DOWNLOAD_TASKS'[t].progress = DOWNLOAD_TASKS[t].progress
            /\ GetFilename(DOWNLOAD_TASKS'[t]) = GetFilename(DOWNLOAD_TASKS[t])
            /\ GetError(DOWNLOAD_TASKS'[t]) = GetError(DOWNLOAD_TASKS[t])]_vars

\* C3: when a submission answers with a task id the task is registered, in
\* status starting with progress 0, and no poll of an id that was handed out
\* answers 'Task not found' within the retention window after the submission.
C3_RegisteredWhenReturned ==
    /\ (response.op \in {"async_download", "batch_download"} /\ response.code = 200)
       => /\ response.task_id \in Registered
          /\ DOWNLOAD_TASKS[response.task_id].status = "starting"
          /\ DOWNLOAD_TASKS[response.task_id].progress = 0
    /\ (response.op = "progress" /\ response.error = "Task not found"
        /\ response.task_id \in TaskIds)
       => now - threads[response.task_id].submitted > Retention

FiveStatuses == {"starting", "downloading", "post_processing", "completed", "error"}

\* C4: the status of every task in the registry is one of starting,
\* downloading, post_processing, completed, error.
C4_StatusIsOneOfFive ==
    \A t \in Registered : DOWNLOAD_TASKS[t].status \in FiveStatuses

\* the post-process phase of the unit has finished: _apply_post_processing
\* has returned, with the processed file or with the fallback
PostProcessFinished(th) ==
    \/ "processed" \in Range(th.outcomes)
    \/ "processing failed" \in Range(th.outcomes)

\* C5: a task whose record has post_processing = true is not completed before
\* both the fetch phase and the post-process phase have finished, whatever
\* configuration made the flag true.  (With the transcoding engine absent
\* the post-process phase is a no-op, and nothing is asked of it.)
C5_CompletedOnlyAfterBothPhases ==
    \A t \in Singles \cap Registered :
        (DOWNLOAD_TASKS[t].post_processing /\ DOWNLOAD_TASKS[t].status = "completed"
         /\ ffmpeg_available)
        => /\ "fetched" \in Range(threads[t].outcomes)
           /\ PostProcessFinished(threads[t])

\* the fetch of unit t succeeded and its post-process operation failed
FetchedThenProcessingFailed(t) ==
    /\ "fetched" \in Range(threads[t].outcomes)
    /\ "processing failed" \in Range(threads[t].outcomes)

\* C6: when the fetch of a single task succeeds and the post-process
\* operation fails, the task is never in error, its error field stays empty,
\* and it ends completed with the path of the fetched file.
C6_ProcessingFailureFallsBack ==
    \A t \in Singles \cap Registered :
        FetchedThenProcessingFailed(t)
        => /\ DOWNLOAD_TASKS[t].status # "error"
           /\ DOWNLOAD_TASKS[t].error = None
           /\ threads[t].pc = "returned"
              => /\ DOWNLOAD_TASKS[t].status = "completed"
                 /\ DOWNLOAD_TASKS[t].filename = FetchedFile(threads[t].urls[1], FALSE)

C6_Witness ==
    \E t \in Singles \cap Registered :
        /\ FetchedThenProcessingFailed(t)
        /\ threads[t].pc = "returned"
        /\ threads[t].transcodes = 1
        /\ DOWNLOAD_TASKS[t].status = "completed"

\* C7: with a post-process configuration and no transcoding engine, no
\* transcoding operation is invoked and the task ends completed, progress
\* 100, with the path of the fetched file and no error.
C7_NoEngineNoProcessing ==
    \A t \in Singles :
        (Truthy(threads[t].post_process) /\ ~ ffmpeg_available)
        => /\ threads[t].transcodes = 0
           /\ (threads[t].pc = "returned" /\ t \in Registered)
              => /\ DOWNLOAD_TASKS[t].status = "completed"
                 /\ DOWNLOAD_TASKS[t].progress = Complete * Scale
                 /\ DOWNLOAD_TASKS[t].filename = FetchedFile(threads[t].urls[1], FALSE)
                 /\ DOWNLOAD_TASKS[t].error = None

C7_Witness ==
    \E t \in Singles \cap Registered :
        /\ threads[t].post_process.type = "dict"
        /\ Truthy(threads[t].post_process)
        /\ ~ ffmpeg_available
        /\ threads[t].pc = "returned"
        /\ DOWNLOAD_TASKS[t].progress = Complete * Scale

C9_BatchNeverError ==
    \A t \in Batches \cap Registered :
        /\ DOWNLOAD_TASKS[t].status # "error"
        /\ threads[t].pc = "returned"
           => /\ DOWNLOAD_TASKS[t].status = "completed"
              /\ DOWNLOAD_TASKS[t].progress = Complete * Scale

C9_Witness ==
    \E t \in Batches \cap Registered :
        /\ threads[t].pc = "returned"
        /\ Len(threads[t].urls) >= 2
        /\ Len(threads[t].outcomes) = Len(threads[t].urls)
        /\ Range(threads[t].outcomes) = {"failed"}
        /\ DOWNLOAD_TASKS[t].status = "completed"

\* C10: the finished batch task of N URLs has completed_files equal to N,
\* whichever items failed.
C10_CompletedFilesIsN ==
    \A t \in Batches \cap Registered :
        threads[t].pc = "returned"
        => DOWNLOAD_TASKS[t].completed_files = Len(threads[t].urls)

\* the items of the batch unit that failed so far
Failed(th) == {k \in DOMAIN th.outcomes : th.outcomes[k] = "failed"}

\* C11 as stated: the finished batch has M errors and N items, and at every
\* earlier moment at most N items and no more errors than items.
C11_ErrorsWithinItems ==
    \A t \in Batches \cap Registered :
        /\ Len(DOWNLOAD_TASKS[t].files) <= Len(threads[t].urls)
        /\ Len(DOWNLOAD_TASKS[t].errors) <= Len(DOWNLOAD_TASKS[t].files)
        /\ threads[t].pc = "returned"
           => /\ Len(DOWNLOAD_TASKS[t].errors) = Cardinality(Failed(threads[t]))
              /\ Len(DOWNLOAD_TASKS[t].files) = Len(threads[t].urls)

\* C11, amended: the finished batch of N URLs of which M failed has M errors
\* and N items; at every earlier moment it has at most N items, and no more
\* errors than items except between the two appends of a failed item (lines
\* 533 and 534), where the error list is one entry longer.
C11_ListLengths ==
    \A t \in Batches \cap Registered :
        /\ Len(DOWNLOAD_TASKS[t].files) <= Len(threads[t].urls)
        /\ Len(DOWNLOAD_TASKS[t].errors) <=
             Len(DOWNLOAD_TASKS[t].files) + (IF threads[t].pc = "l534" THEN 1 ELSE 0)
        /\ threads[t].pc = "returned"
           => /\ Len(DOWNLOAD_TASKS[t].errors) = Cardinality(Failed(threads[t]))
              /\ Len(DOWNLOAD_TASKS[t].files) = Len(threads[t].urls)

C11_Witness ==
    \E t \in Batches \cap Registered :
        /\ threads[t].pc = "returned"
        /\ threads[t].outcomes = <<"failed", "ok">>
        /\ Len(DOWNLOAD_TASKS[t].errors) = 1
        /\ Len(DOWNLOAD_TASKS[t].files) = 2

\* the tasks a step removes from the registry
Removed == DOMAIN DOWNLOAD_TASKS \ DOMAIN DOWNLOAD_TASKS'

\* C12: the cleanup sweep removes a task only if it is terminal and was
\* created more than the retention window before now, never a task still in
\* flight, and reports the number of tasks it removed.
C12_SweepRemovesOnlyExpiredTerminal ==
    [][response'.op = "cleanup"
       => /\ \A t \in Removed :
               /\ Terminal(DOWNLOAD_TASKS[t])
               /\ now - DOWNLOAD_TASKS[t].start_time.iso > Retention
          /\ response'.tasks_cleaned = Cardinality(Removed)]_vars

\* the units that ran their registration step
Started == {t \in TaskIds : threads[t].pc \notin {"l380", "l501"}}

\* C13: a poll of a terminal task created more than 3600 seconds ago answers
\* 'not found' and deletes the task, and a deleted task never comes back, so
\* every later poll of the id is 'not found' too; a poll of a task that is
\* non-terminal or within the window answers its record and deletes nothing.
C13_PollDeletesExpiredTerminal ==
    [][\A id \in AnyTaskId :
         /\ (response'.op = "progress" /\ response'.task_id = id /\ id \in Registered)
            => IF /\ Terminal(DOWNLOAD_TASKS[id])
                  /\ now - DOWNLOAD_TASKS[id].start_time.iso > Retention
               THEN /\ response'.code = 404
                    /\ response'.task = NoTask
                    /\ id \notin DOMAIN DOWNLOAD_TASKS'
               ELSE /\ response'.code = 200
                    /\ response'.task = DOWNLOAD_TASKS[id]
                    /\ DOWNLOAD_TASKS' = DOWNLOAD_TASKS
         /\ (id \in Started /\ id \notin Registered)
            => /\ id \notin DOMAIN DOWNLOAD_TASKS'
               /\ (response'.op = "progress" /\ response'.task_id = id)
                  => response'.code = 404 /\ response'.task = NoTask]_vars

\* a poll deleted the expired task (its file is still on disk, so no sweep
\* ran) and a later poll of the same id is answered 'not found'
C13_Witness ==
    /\ response.op = "progress"
    /\ response.code = 404
    /\ response.error = "Task not found"
    /\ response.task_id \in Started
    /\ threads[response.task_id].pc = "returned"
    /\ disk # {}
    /\ now > Retention

\* C14: a poll for a task id that is not in the registry answers 'not found'
\* in every state and leaves the registry unchanged.
C14_UnknownIdNotFound ==
    [][\A id \in AnyTaskId :
         (response'.op = "progress" /\ response'.task_id = id /\ id \notin Registered)
         => /\ response'.code = 404
            /\ response'.error = "Task not found"
            /\ response'.task = NoTask
            /\ DOWNLOAD_TASKS' = DOWNLOAD_TASKS]_vars

\* an id that was never submitted is polled while another request's answer
\* is not pending: the registry is empty and the answer is 'not found'
C14_Witness ==
    /\ response.op = "progress"
    /\ response.error = "Task not found"
    /\ response.task_id \notin TaskIds
    /\ response.task_id \notin Registered

\* C15: a single task submitted without a post-process configuration (None,
\* or an empty one) never has status 'post_processing', whatever callbacks
\* the retrieval engine issues.
C15_NoConfigNeverPostProcessing ==
    \A t \in Singles \cap Registered :
        ~ Truthy(threads[t].post_process)
        => DOWNLOAD_TASKS[t].status # "post_processing"

\* the engine reported 'finished' to the hook of a task without configuration
C15_Witness ==
    \E t \in Singles \cap Registered :
        /\ threads[t].post_process = JNull
        /\ threads[t].pc = "l405"
        /\ threads[t].d.status = "finished"
        /\ DOWNLOAD_TASKS[t].status = "finished"

\* C16: every poll that observes a single-download task with status
\* 'completed' observes, in the same record, progress exactly 100 and a
\* non-empty file path.
C16_CompletedPollIsWhole ==
    (/\ response.op = "progress"
     /\ response.code = 200
     /\ response.task_id \in Singles
     /\ response.task.status = "completed")
    => /\ response.task.progress = Complete * Scale
       /\ response.task.filename \notin {"", None}

\* C17: the file endpoint serves an artifact only for a task whose status is
\* 'completed'; for a registered task in any other status it answers 'not
\* ready' (400) and serves nothing.  The handler leaves the registry alone,
\* so the record the answer was computed from is the one in the registry.
C17_FileOnlyWhenCompleted ==
    (response.op = "file" /\ response.task_id \in Registered)
    => LET task == DOWNLOAD_TASKS[response.task_id] IN
       /\ response.file # "" => task.status = "completed"
       /\ task.status # "completed"
          => /\ response.code = 400
             /\ response.error = "Download not completed"
             /\ response.file = ""

\* the file of a task whose hook stored a file name is requested before the
\* task completed
C17_Witness ==
    /\ response.op = "file"
    /\ response.code = 400
    /\ response.task_id \in Singles \cap Registered
    /\ DOWNLOAD_TASKS[response.task_id].status = "finished"
    /\ DOWNLOAD_TASKS[response.task_id].filename \in disk

\* C18: a file request for a terminal task older than the retention window
\* answers 'not found' and never serves the artifact.
C18_ExpiredFileNotFound ==
    (/\ response.op = "file"
     /\ response.task_id \in Registered
     /\ Terminal(DOWNLOAD_TASKS[response.task_id])
     /\ now - DOWNLOAD_TASKS[response.task_id].start_time.iso > Retention)
    => /\ response.code = 404
       /\ response.file = ""

\* C19: under fair scheduling, with every engine call returning or failing,
\* every submitted task eventually has status 'completed' or 'error' in the
\* registry, whatever polls, file requests and cleanups are issued.
C19_SubmittedTaskEndsTerminal ==
    \A t \in AnyTaskId :
        (t \in TaskIds /\ threads[t].pc \in {"l380", "l501"})
        ~> (t \in Registered /\ Terminal(DOWNLOAD_TASKS[t]))

\* the scratch paths the unit is writing: inside extract_info the engine
\* writes the file named by outtmpl and, with the convertor, its mp4; inside
\* _apply_post_processing the operation writes its output path
CurrentOutput(th) ==
    IF th.pc = "l430" /\ th.urls[1] # MalformedUrl
    THEN {OutputTemplate(th.urls[1]), FetchedFile(th.urls[1], Converts(th))}
    ELSE IF th.pc = "l440" /\ InvokesEngine(th.post_process)
    THEN {ProcessedPath(th.filename, th.post_process)}
    ELSE {}

\* C20: no two tasks running concurrently write to the same scratch path,
\* also when they download the same URL.
C20_NoSharedScratchPath ==
    \A t1 \in TaskIds, t2 \in TaskIds :
        t1 # t2 => CurrentOutput(threads[t1]) \cap CurrentOutput(threads[t2]) = {}

\* C21: on a 'downloading' callback reporting percentage p, the progress of
\* the task is set to p * 0.7 when post-processing was requested for the task
\* and to p * 1.0 when it was not.
C21_FetchWeightFollowsRequest ==
    [][\A t \in Singles \cap Registered :
         (threads[t].pc = "l394" /\ threads'[t].pc = "l395")
         => DOWNLOAD_TASKS'[t].progress =
              (float(StripPercent(threads[t].d._percent_str))
                 * (IF DOWNLOAD_TASKS[t].post_processing THEN FetchWeightTenths ELSE 10)
                 * Scale) \div 10]_vars

\* C22: the result file location of a single task is empty in every state in
\* which the status of the task is not 'completed'.
C22_FilenameOnlyWhenCompleted ==
    \A t \in Singles \cap Registered :
        DOWNLOAD_TASKS[t].status # "completed" => DOWNLOAD_TASKS[t].filename = ""

\* C23: an asynchronous submission whose URL is malformed is rejected
\* synchronously: no task id is returned, no background unit is started for
\* it and no task is registered for it.
C23_MalformedUrlRejected ==
    \A t \in TaskIds :
        \A k \in DOMAIN threads[t].urls : threads[t].urls[k] # MalformedUrl

\* C24: registering a task under an identifier that is already in the
\* registry fails and leaves the existing record unchanged: a registration
\* never overwrites a record.
C24_RegistrationNeverOverwrites ==
    [][\A t \in TaskIds :
         (/\ threads[t].pc \in {"l380", "l501"}
          /\ threads'[t].pc # threads[t].pc
          /\ threads[t].task_id \in Registered)
         => /\ DOWNLOAD_TASKS' = DOWNLOAD_TASKS
            /\ threads'[t].pc \in {"raised", "died"}]_vars

\* C25: a progress poll or a file request leaves the whole registry
\* unchanged, except that a poll of an expired terminal task deletes that one
\* task and nothing else.
C25_ReadsLeaveRegistry ==
    [][response'.op \in {"progress", "file"}
       => \/ DOWNLOAD_TASKS' = DOWNLOAD_TASKS
          \/ /\ response'.op = "progress"
             /\ response'.task_id \in Registered
             /\ Terminal(DOWNLOAD_TASKS[response'.task_id])
             /\ now - DOWNLOAD_TASKS[response'.task_id].start_time.iso > Retention
             /\ DOMAIN DOWNLOAD_TASKS' = Registered \ {response'.task_id}
             /\ \A k \in DOMAIN DOWNLOAD_TASKS' : DOWNLOAD_TASKS'[k] = DOWNLOAD_TASKS[k]]_vars

\* a poll deleted an expired terminal task while another task stayed
C25_Witness ==
    /\ response.op = "progress"
    /\ response.error = "Task expired"
    /\ response.task_id \notin Registered
    /\ Registered # {}

\* the unit has ended: batch_download returned, or an exception left it
Ended(th) == th.pc \in {"returned", "raised", "died"}

\* C26: the unit of a batch attempts every URL of the list exactly once and
\* in list order, one at a time: item i+1 is started only when item i has
\* succeeded or failed, and when the unit has ended every URL was attempted,
\* also after failed items.
C26_EveryUrlAttemptedInOrder ==
    \A t \in Batches :
        LET th == threads[t] IN
        /\ Len(th.outcomes) \in {th.i, th.i + 1}
        /\ th.pc = "l520" => Len(th.outcomes) = th.i
        /\ Len(th.outcomes) <= Len(th.urls)
        /\ Ended(th) => Len(th.outcomes) = Len(th.urls)

\* C27: a 'downloading' callback whose percentage string is no number leaves
\* the task record entirely unchanged: the callback returns without a write
\* to progress, status or file path.
C27_UnparsedPercentIgnored ==
    [][\A t \in Singles \cap Registered :
         \A d \in HookArgs(threads[t].urls[1]) :
             (/\ progress_hook(t, d)
              /\ d.status = "downloading"
              /\ d._percent_str = "  N/A%")
             => /\ DOWNLOAD_TASKS' = DOWNLOAD_TASKS
                /\ threads'[t].pc = "l430"]_vars

\* the first callback of a registered task returned and the record is as
\* registered: every other callback would have written the status
C27_Witness ==
    \E t \in Singles \cap Registered :
        /\ threads[t].hooks = 1
        /\ threads[t].pc = "l430"
        /\ DOWNLOAD_TASKS[t] = download_video_record(threads[t])

\* C28: a batch submission with more than 50 URLs, or with an empty list or
\* a value that is no list, is rejected: no task id, no registry entry, no
\* background unit; a list of 1 to 50 URLs is accepted and yields exactly one
\* task id, that of the one unit started for the whole list.
C28_BatchSizeChecked ==
    [][\A urls \in BatchInputs, post_process \in PostProcessInputs :
         batch_download_endpoint(urls, post_process)
         => IF ~ urls.islist \/ Len(urls.items) = 0 \/ Len(urls.items) > 50
            THEN /\ response'.code = 400
                 /\ response'.task_id = 0
                 /\ threads' = threads
                 /\ DOWNLOAD_TASKS' = DOWNLOAD_TASKS
            ELSE /\ response'.code = 200
                 /\ Len(threads') = Len(threads) + 1
                 /\ response'.task_id = Len(threads')
                 /\ threads'[Len(threads')].task_id = response'.task_id
                 /\ threads'[Len(threads')].kind = "batch"
                 /\ threads'[Len(threads')].urls = urls.items
                 /\ SubSeq(threads', 1, Len(threads)) = threads
                 /\ DOWNLOAD_TASKS' = DOWNLOAD_TASKS]_vars

\* a list of 51 URLs was refused and nothing was started
C28_Witness ==
    /\ response.op = "batch_download"
    /\ response.code = 400
    /\ response.error = "Maximum 50 URLs per batch"
    /\ threads = <<>>

\* the place of a status in the order starting, downloading, post_processing,
\* completed
StatusRank(status) ==
    CASE status = "starting" -> 0
      [] status = "downloading" -> 1
      [] status = "post_processing" -> 2
      [] OTHER -> 3

OrderedStatuses == {"starting", "downloading", "post_processing", "completed"}

\* C29: the status of a single task only moves forward in the order
\* starting, downloading, post_processing, completed, and 'error' is entered
\* only from a non-terminal status.
C29_StatusMovesForward ==
    [][\A t \in Singles \cap Registered :
         t \in DOMAIN DOWNLOAD_TASKS'
         => /\ (/\ DOWNLOAD_TASKS[t].status \in OrderedStatuses
                /\ DOWNLOAD_TASKS'[t].status \in OrderedStatuses)
               => StatusRank(DOWNLOAD_TASKS'[t].status)
                    >= StatusRank(DOWNLOAD_TASKS[t].status)
            /\ (/\ DOWNLOAD_TASKS'[t].status = "error"
                /\ DOWNLOAD_TASKS[t].status # "error")
               => ~ Terminal(DOWNLOAD_TASKS[t])]_vars

\* C30: a task id deleted from the registry never reappears.  An entry
\* appears only by the registration statement of its unit (line 380 or 501),
\* which a unit executes once, before every other write; no write from the
\* callback, the completion or the error path creates an entry.
C30_DeletedNeverReappears ==
    [][/\ \A id \in DOMAIN DOWNLOAD_TASKS' \ DOMAIN DOWNLOAD_TASKS :
            \E t \in TaskIds :
                /\ threads[t].task_id = id
                /\ threads[t].pc \in {"l380", "l501"}
                /\ threads'[t].pc \notin {"l380", "l501"}
       /\ \A t \in Started : t \in DOMAIN threads' /\ threads'[t].pc \notin {"l380", "l501"}
       /\ \A t \in TaskIds : threads'[t].task_id = threads[t].task_id]_vars

\* the unit of a deleted task tried to write, in the body and then in the
\* except clause, and the registry has no entry for it
C30_Witness ==
    \E t \in Singles :
        /\ threads[t].pc = "died"
        /\ threads[t].exc = "KeyError"
        /\ threads[t].task_id \notin Registered

\* what holds of the registry and of an answer in a state: the entries are
\* those of the units, one each; a batch record holds no file path; a file
\* request for a completed batch is answered 'not found' and serves nothing
BatchRecordHasNoFile ==
    /\ Registered \subseteq {threads[t].task_id : t \in TaskIds}
    /\ Cardinality(Registered) <= Len(threads)
    /\ \A t \in Batches \cap Registered :
           /\ GetFilename(DOWNLOAD_TASKS[t]) = None
           /\ (/\ response.op = "file"
               /\ response.task_id = t
               /\ DOWNLOAD_TASKS[t].status = "completed")
              => /\ response.code = 404
                 /\ response.error = "File not found"
                 /\ response.file = ""

\* the download of an item of a batch, start to end
ItemDownloaded(t) == threads[t].pc = "l520" /\ threads'[t].pc # "l520"

\* C31: a batch registers exactly one registry entry: the download of an
\* item runs without a task id and writes nothing to the registry, the batch
\* record never holds a file path, and a file request for a batch task is
\* answered 'not found' in every state in which the batch is 'completed'.
C31_BatchHasNoFile ==
    /\ []BatchRecordHasNoFile
    /\ [][\A t \in Batches : ItemDownloaded(t) => DOWNLOAD_TASKS' = DOWNLOAD_TASKS]_vars

\* the items of a completed batch are on disk and a request for the file of
\* the batch was answered 'not found'
C31_Witness ==
    /\ response.op = "file"
    /\ response.code = 404
    /\ response.error = "File not found"
    /\ response.task_id \in Batches \cap Registered
    /\ DOWNLOAD_TASKS[response.task_id].status = "completed"
    /\ threads[response.task_id].outcomes = <<"ok", "ok">>
    /\ disk # {}

====
